---- MODULE Spec2Model ----
(***************************************************************************)
(* Model of the command tokenizer and dispatcher of cmd.cpp (class         *)
(* CmdParam): the static parser state (current, index, sep), gettoken,     *)
(* getint/getuint/getfloat and process.                                    *)
(*                                                                         *)
(* A std::string is a sequence of one-character strings.  Positions are    *)
(* 0-based as in C++, so the character at position p of s is s[p+1].       *)
(***************************************************************************)
EXTENDS Integers, Sequences, FiniteSets, TLC

(***************************************************************************)
(* Bounds of the model.                                                    *)
(***************************************************************************)
\* longest command line submitted to process
MaxLen == 5
\* deepest nesting of process calls (a handler calling process again)
MaxDepth == 2
\* the numbers formatted into the buffer of the numeric calls run over
\* -MaxValue..MaxValue, besides the extreme values of the types
MaxValue == 12

\* characters command lines are built from: a letter, a digit, the decimal
\* point and one of the default separators
Alphabet == {"a", "1", ".", " "}

\* every sequence over S of length n
RECURSIVE SeqsOfLen(_, _)
SeqsOfLen(S, n) ==
    IF n = 0 THEN {<<>>}
    ELSE {Append(s, c) : s \in SeqsOfLen(S, n - 1), c \in S}

\* the command lines: every string over Alphabet of length 0..MaxLen
Lines == UNION {SeqsOfLen(Alphabet, n) : n \in 0..MaxLen}

\* the command lines submitted while an earlier line is in the buffer: a
\* blank one, a command word alone, and a word (a command of TableDoc only)
\* followed by an argument.  (A blank line empties the buffer, after which
\* every line of Lines can be submitted again.)
MoreLines ==
    { <<>>, <<"a">>, <<"1", " ", "a">> }

(***************************************************************************)
(* std::string primitives                                                  *)
(***************************************************************************)
\* std::string::npos, the size_t value (size_t)-1
npos == -1

\* The value index holds after line 110 stores npos in it: index is an
\* unsigned int, so the size_t npos is truncated to UINT_MAX = 2^32-1.  TLC's
\* integers are 32-bit signed, so the largest of them stands for it; the code
\* only compares it with string lengths and subtracts positions from it, and
\* every string length is far below both numbers.
NposIndex == 2147483647

\* conversion of a size_t result to the unsigned int index (LP64: npos
\* becomes UINT_MAX, a position of a line is kept)
ToUInt(n) == IF n = npos THEN NposIndex ELSE n

SetMin(P) == CHOOSE p \in P : \A q \in P : p <= q

\* s.find_first_not_of(set, pos)
FindFirstNotOf(s, set, pos) ==
    LET P == {p \in pos..(Len(s) - 1) : s[p + 1] \notin set}
    IN  IF P = {} THEN npos ELSE SetMin(P)

\* s.find_first_of(set, pos)
FindFirstOf(s, set, pos) ==
    LET P == {p \in pos..(Len(s) - 1) : s[p + 1] \in set}
    IN  IF P = {} THEN npos ELSE SetMin(P)

\* s.substr(pos, count) for pos <= s.size(): count is clamped to the rest of
\* the string (count = npos takes all of it).  pos > s.size() throws
\* std::out_of_range: see SubstrThrows.
Substr(s, pos, count) ==
    LET rest == Len(s) - pos
        n    == IF count = npos \/ count > rest THEN rest ELSE count
    IN  SubSeq(s, pos + 1, pos + n)

\* s.substr(pos, ...) throws std::out_of_range
SubstrThrows(s, pos) == pos > Len(s)

\* gettoken with a slip: a call that finds no token rewinds index to 0
gettokenRewind(cur, idx, seps) ==
    LET n1 == FindFirstNotOf(cur, seps, idx)
    IN  IF n1 = npos
        THEN [valid |-> FALSE, token |-> <<>>, index |-> 0]
        ELSE LET ni == ToUInt(FindFirstOf(cur, seps, n1))
             IN  [valid |-> TRUE,
                  token |-> Substr(cur, n1, IF ni # npos THEN ni - n1 ELSE npos),
                  index |-> ni]

\* gettoken with a slip: a call that finds no token leaves index at the end
\* of the buffer, past the separators it skipped
gettokenSkipSeps(cur, idx, seps) ==
    LET n1 == FindFirstNotOf(cur, seps, idx)
    IN  IF n1 = npos
        THEN [valid |-> FALSE, token |-> <<>>, index |-> Len(cur)]
        ELSE LET ni == ToUInt(FindFirstOf(cur, seps, n1))
             IN  [valid |-> TRUE,
                  token |-> Substr(cur, n1, IF ni # npos THEN ni - n1 ELSE npos),
                  index |-> ni]

\* gettoken with a slip: the token runs to the end of the buffer
gettokenWholeRest(cur, idx, seps) ==
    LET n1 == FindFirstNotOf(cur, seps, idx)
    IN  IF n1 = npos
        THEN [valid |-> FALSE, token |-> <<>>, index |-> idx]
        ELSE LET ni == ToUInt(FindFirstOf(cur, seps, n1))
             IN  [valid |-> TRUE,
                  token |-> Substr(cur, n1, npos),
                  index |-> ni]

(***************************************************************************)
(* CmdParam::gettoken on the state (cur, idx, seps): the valid flag, the   *)
(* token and the new value of index.                                       *)
(***************************************************************************)
gettoken(cur, idx, seps) ==
    LET n1 == FindFirstNotOf(cur, seps, idx)
    IN  IF n1 = npos
        THEN [valid |-> FALSE, token |-> <<>>, index |-> idx]
        ELSE LET ni == ToUInt(FindFirstOf(cur, seps, n1))
             IN  [valid |-> TRUE,
                  token |-> Substr(cur, n1, IF ni # npos THEN ni - n1 ELSE npos),
                  index |-> ni]

(***************************************************************************)
(* Numeric conversions of a token: std::stoi(token, NULL, 0),              *)
(* std::stoul(token, NULL, 0) and std::stof(token).                        *)
(*                                                                         *)
(* A token holds no white space (the default separators are the white      *)
(* space of the alphabets used), so the conversions' skipping of leading   *)
(* white space never applies.  Unsigned 32-bit values are kept as two      *)
(* 16-bit halves [hi, lo], which keeps the arithmetic mod 2^32 exact.      *)
(***************************************************************************)
Half == 256 * 256

HexDigits == <<"0", "1", "2", "3", "4", "5", "6", "7", "8", "9",
               "a", "b", "c", "d", "e", "f">>
HexUpper == <<"0", "1", "2", "3", "4", "5", "6", "7", "8", "9",
              "A", "B", "C", "D", "E", "F">>

\* value of the character c as a digit, 99 when it is none
DigitVal(c) ==
    LET L == {k \in 1..16 : HexDigits[k] = c \/ HexUpper[k] = c}
    IN  IF L = {} THEN 99 ELSE (CHOOSE k \in L : TRUE) - 1

IsDigit(c, base) == DigitVal(c) < base

\* position (1-based) after the optional sign at the head of tok
AfterSign(tok) == IF Len(tok) > 0 /\ tok[1] \in {"+", "-"} THEN 2 ELSE 1

IsNeg(tok) == Len(tok) > 0 /\ tok[1] = "-"

\* strtol/strtoul with base 0: the base the prefix selects and the 1-based
\* position of the first digit.  "0x"/"0X" counts as a prefix only before a
\* hex digit, otherwise the "0" is an octal number.
IntBase(tok) ==
    LET p == AfterSign(tok)
    IN  IF /\ Len(tok) >= p + 2
           /\ tok[p] = "0"
           /\ tok[p + 1] \in {"x", "X"}
           /\ IsDigit(tok[p + 2], 16)
        THEN [base |-> 16, from |-> p + 2]
        ELSE IF Len(tok) >= p /\ tok[p] = "0"
             THEN [base |-> 8, from |-> p]
             ELSE [base |-> 10, from |-> p]

\* number of digits of the base at the head of tok from position from
RECURSIVE DigitRun(_, _, _)
DigitRun(tok, from, base) ==
    IF from <= Len(tok) /\ IsDigit(tok[from], base)
    THEN 1 + DigitRun(tok, from + 1, base)
    ELSE 0

\* the digits tok[from .. from+n-1] accumulated into acc = [hi, lo, over]:
\* the value mod 2^32 in halves, over when it passed 2^32-1
RECURSIVE Accumulate(_, _, _, _, _)
Accumulate(tok, from, n, base, acc) ==
    IF n = 0 THEN acc
    ELSE LET l == acc.lo * base + DigitVal(tok[from])
             h == acc.hi * base + (l \div Half)
         IN  Accumulate(tok, from + 1, n - 1, base,
                        [hi |-> h % Half, lo |-> l % Half,
                         over |-> acc.over \/ h >= Half])

\* the integer at the head of tok: ok (some digit was converted), its sign
\* and its magnitude
ParseInteger(tok) ==
    LET b == IntBase(tok)
        n == DigitRun(tok, b.from, b.base)
    IN  [ok  |-> n > 0,
         neg |-> IsNeg(tok),
         mag |-> Accumulate(tok, b.from, n, b.base,
                            [hi |-> 0, lo |-> 0, over |-> FALSE])]

\* std::stoi with a slip: the result passes through a 16-bit integer
StoIShort(tok) ==
    LET r == ParseInteger(tok)
    IN  IF ~r.ok THEN [threw |-> "invalid_argument", value |-> 0]
        ELSE [threw |-> "", value |-> IF r.neg THEN 0 - r.mag.lo ELSE r.mag.lo]

\* std::stoi(token, NULL, 0): threw is "" when it returns value
StoI(tok) ==
    LET r == ParseInteger(tok)
        m == r.mag
    IN  IF ~r.ok THEN [threw |-> "invalid_argument", value |-> 0]
        ELSE IF m.over \/ (m.hi >= Half \div 2 /\ ~(r.neg /\ m.hi = Half \div 2 /\ m.lo = 0))
        THEN [threw |-> "out_of_range", value |-> 0]
        ELSE IF r.neg
        THEN [threw |-> "", value |-> (0 - m.hi) * Half - m.lo]
        ELSE [threw |-> "", value |-> m.hi * Half + m.lo]

\* two's complement of a 32-bit value in halves
Negate32(m) ==
    IF m.lo = 0
    THEN [hi |-> (Half - m.hi) % Half, lo |-> 0]
    ELSE [hi |-> Half - 1 - m.hi, lo |-> Half - m.lo]

\* std::stoul(token, NULL, 0) stored in an unsigned int: the value mod 2^32.
\* (stoul itself throws out_of_range only past 2^64-1, which takes a token
\* of 17 characters or more.)
StoUL(tok) ==
    LET r == ParseInteger(tok)
        m == [hi |-> r.mag.hi, lo |-> r.mag.lo]
    IN  IF ~r.ok THEN [threw |-> "invalid_argument", value |-> [hi |-> 0, lo |-> 0]]
        ELSE [threw |-> "", value |-> IF r.neg THEN Negate32(m) ELSE m]

\* 10 to the power n
RECURSIVE Pow10(_)
Pow10(n) == IF n = 0 THEN 1 ELSE 10 * Pow10(n - 1)

\* the digits d without their leading zeros
RECURSIVE StripLead(_)
StripLead(d) == IF d # <<>> /\ Head(d) = "0" THEN StripLead(Tail(d)) ELSE d

\* the digits d without their trailing zeros
RECURSIVE StripTrail(_)
StripTrail(d) ==
    IF d # <<>> /\ d[Len(d)] = "0" THEN StripTrail(SubSeq(d, 1, Len(d) - 1)) ELSE d

\* std::stof(token): [sign] digits [. digits] or [sign] . digits at the head
\* of the token.  The value is kept as the decimal number read: its sign, the
\* digits before the point without leading zeros and those after it without
\* trailing zeros (the rounding of that number to the nearest float is not
\* part of the model).  The alphabets hold none of the letters of an
\* exponent, a hex float, "inf" or "nan", so the number ends at the first
\* character that is neither a digit nor the first point.
StoF(tok) ==
    LET p  == AfterSign(tok)
        ni == DigitRun(tok, p, 10)
        pt == Len(tok) >= p + ni /\ tok[p + ni] = "."
        nf == IF pt THEN DigitRun(tok, p + ni + 1, 10) ELSE 0
    IN  IF ni + nf = 0
        THEN [threw |-> "invalid_argument", neg |-> FALSE, int |-> <<>>, frac |-> <<>>]
        ELSE [threw |-> "", neg |-> IsNeg(tok),
              int |-> StripLead(SubSeq(tok, p, p + ni - 1)),
              frac |-> StripTrail(SubSeq(tok, p + ni + 1, p + ni + nf))]

(***************************************************************************)
(* Command tables.  A row is a CmdParam: id, cmdname, the handler fp and   *)
(* its argument arg (the help text plays no part in process).  Handlers    *)
(* and arguments are named by strings.                                     *)
(***************************************************************************)
Row(id, name, fp, arg) == [id |-> id, cmdname |-> name, fp |-> fp, arg |-> arg]

\* the table of the header comment: ids 1.. at indices 0.., end row { 0, "" }
TableDoc ==
    << Row(1, <<"a">>, "help", "NULL"),
       Row(2, <<"a", "1">>, "cmd_val", "valueA"),
       Row(3, <<"1">>, "cmd_val", "valueB"),
       Row(0, <<>>, "NULL", "NULL") >>

\* a table with a duplicated name, a row of id 0 before the end row, an end
\* row whose id is not 0, and rows after the end row
TableDup ==
    << Row(0, <<"a", "1">>, "list", "NULL"),
       Row(7, <<"a">>, "help", "NULL"),
       Row(5, <<"a", "1">>, "cmd_val", "valueA"),
       Row(9, <<>>, "NULL", "NULL"),
       Row(6, <<"1">>, "cmd_val", "valueB"),
       Row(0, <<>>, "NULL", "NULL") >>

\* the table with no command
TableEmpty == << Row(0, <<>>, "NULL", "NULL") >>

Tables == {TableDoc, TableDup, TableEmpty}

(***************************************************************************)
(* Callbacks process makes, as records of one shape: fn is "print",        *)
(* "notfound" or "handler"; row is the table index whose fp was called.    *)
(***************************************************************************)
PrintCall(msg) ==
    [fn |-> "print", row |-> 0 - 1, fp |-> "", id |-> 0, arg |-> "",
     s1 |-> msg, s2 |-> <<>>]

NotFoundCall(line, cmd) ==
    [fn |-> "notfound", row |-> 0 - 1, fp |-> "", id |-> 0, arg |-> "",
     s1 |-> line, s2 |-> cmd]

\* table[i].fp(i, table[i].arg, p)
HandlerCall(table, i, p) ==
    [fn |-> "handler", row |-> i, fp |-> table[i + 1].fp, id |-> i,
     arg |-> table[i + 1].arg, s1 |-> p, s2 |-> <<>>]

\* the string "Unknown error:"
UnknownError ==
    <<"U", "n", "k", "n", "o", "w", "n", " ", "e", "r", "r", "o", "r", ":">>

\* the loop condition with a slip: the table ends at the row of id 0
EndOfTableById(table, i) == table[i + 1].id = 0

\* the loop condition of the table search: row i ends the table
EndOfTable(table, i) == Len(table[i + 1].cmdname) = 0

\* the table search with a slip: the last row named ccmd wins
RECURSIVE SearchLast(_, _, _)
SearchLast(table, ccmd, i) ==
    IF EndOfTable(table, i)
    THEN [found |-> FALSE, i |-> i, compared |-> {}]
    ELSE LET r == SearchLast(table, ccmd, i + 1)
         IN  IF ~r.found /\ ccmd = table[i + 1].cmdname
             THEN [found |-> TRUE, i |-> i, compared |-> r.compared \cup {i}]
             ELSE [r EXCEPT !.compared = r.compared \cup {i}]

\* the table search of process from index i: the index of the first row
\* named ccmd (found), or the index of the end row; compared holds the
\* indices whose name was compared with ccmd
RECURSIVE Search(_, _, _)
Search(table, ccmd, i) ==
    IF EndOfTable(table, i)
    THEN [found |-> FALSE, i |-> i, compared |-> {}]
    ELSE IF ccmd = table[i + 1].cmdname
    THEN [found |-> TRUE, i |-> i, compared |-> {i}]
    ELSE LET r == Search(table, ccmd, i + 1)
         IN  [r EXCEPT !.compared = r.compared \cup {i}]

\* the blank-line branch with a slip: no return after the report, so the
\* not-found callback follows it
BlankLineNoReturn(cmdline) ==
    << PrintCall(UnknownError), PrintCall(cmdline), NotFoundCall(cmdline, <<>>) >>

\* the blank-line branch of process: the callbacks it makes
BlankLine(cmdline) == << PrintCall(UnknownError), PrintCall(cmdline) >>

\* the not-found branch with a slip: the two arguments swapped
NotFoundSwapped(cmdline, ccmd) == << NotFoundCall(ccmd, cmdline) >>

\* the not-found branch of process: the callbacks it makes
NotFound(cmdline, ccmd) == << NotFoundCall(cmdline, ccmd) >>

\* the found branch with a slip: index is reset with current (line 137)
FoundRewind(table, cmdline, r, idx) ==
    IF SubstrThrows(cmdline, idx)
    THEN [index |-> 0, calls |-> <<>>, compared |-> r.compared,
          threw |-> "out_of_range", entered |-> FALSE]
    ELSE [index |-> 0,
          calls |-> << HandlerCall(table, r.i, Substr(cmdline, idx, npos)) >>,
          compared |-> r.compared, threw |-> "", entered |-> TRUE]

\* the found branch of process, the search having stopped at r with index at
\* idx: current.substr(index) throws, or the handler of row r.i is called
Found(table, cmdline, r, idx) ==
    IF SubstrThrows(cmdline, idx)
    THEN [index |-> idx, calls |-> <<>>, compared |-> r.compared,
          threw |-> "out_of_range", entered |-> FALSE]
    ELSE [index |-> idx,
          calls |-> << HandlerCall(table, r.i, Substr(cmdline, idx, npos)) >>,
          compared |-> r.compared, threw |-> "", entered |-> TRUE]

\* the reset with a slip: the cursor of the earlier line is kept
ResetKeepIndex(cur, idx, cmdline) == [current |-> cmdline, index |-> idx]

\* the reset with a slip: a line already in the buffer is kept
ResetKeepBuffer(cur, idx, cmdline) ==
    [current |-> IF cur = <<>> THEN cmdline ELSE cur, index |-> 0]

\* the start of process (lines 122-123), the statics holding cur and idx:
\* current=cmdline; index=0
Reset(cur, idx, cmdline) == [current |-> cmdline, index |-> 0]

(***************************************************************************)
(* CmdParam::process(table, cmdline), the statics holding cur and idx, up  *)
(* to its return, its exception or its call of the handler: the new        *)
(* current and index, the callbacks made, the indices compared, the        *)
(* exception thrown ("" for none) and whether a handler was entered.       *)
(* The found branch assigns current=cmdline once more (line 137) and takes *)
(* the remainder from it.                                                  *)
(***************************************************************************)
process(cur, idx, table, cmdline, seps) ==
    LET st == Reset(cur, idx, cmdline)
        t  == gettoken(st.current, st.index, seps)
        r  == Search(table, t.token, 0)
    IN  IF ~t.valid
        THEN [current |-> st.current, index |-> t.index,
              calls |-> BlankLine(cmdline), compared |-> {},
              threw |-> "", entered |-> FALSE]
        ELSE IF ~r.found
        THEN [current |-> st.current, index |-> t.index,
              calls |-> NotFound(cmdline, t.token),
              compared |-> r.compared, threw |-> "", entered |-> FALSE]
        ELSE [current |-> cmdline] @@ Found(table, cmdline, r, t.index)

(***************************************************************************)
(* State.                                                                  *)
(*   current, index, sep  the static members of CmdParam                   *)
(*   depth     number of handlers running (process calls waiting at the    *)
(*             handler call of line 138)                                   *)
(*   req       table and line of the most recent process call (no table    *)
(*             before the first call)                                      *)
(*   calls     the callbacks the most recent process call made             *)
(*   compared  the table indices it compared with the command word         *)
(*   live      the most recent process call entered a handler, and no      *)
(*             handler has returned since                                  *)
(*   ret       what the most recent call gave its caller                   *)
(*   consumed  the tokens the get calls took since the most recent         *)
(*             process call                                                *)
(***************************************************************************)
VARIABLES current, index, sep, depth, req, calls, compared, live, ret, consumed

vars == <<current, index, sep, depth, req, calls, compared, live, ret, consumed>>

\* the separators " \t\r\n"
DefaultSep == {" ", "\t", "\r", "\n"}

Zero32 == [hi |-> 0, lo |-> 0]
ZeroF == [neg |-> FALSE, int |-> <<>>, frac |-> <<>>]

\* what a call gave its caller: the flag it stored through its valid
\* pointer (wrote: the pointer was not NULL), the token its gettoken found,
\* the exception it threw ("" for none) and the number it returned
Ret(op, valid, token, threw, ival, uval, fval) ==
    [op |-> op, valid |-> valid, token |-> token, threw |-> threw,
     ival |-> ival, uval |-> uval, fval |-> fval,
     wrote |-> op \in {"gettoken", "getint", "getuint", "getfloat"}]

\* if (valid) *valid=tvalid: with flag FALSE the caller passed NULL and no
\* flag is stored
Reported(flag, r) ==
    IF flag THEN r ELSE [r EXCEPT !.valid = FALSE, !.wrote = FALSE]

Init ==
    /\ current = <<>>
    /\ index = 0
    /\ sep = DefaultSep
    /\ depth = 0
    /\ req = [table |-> <<>>, line |-> <<>>]
    /\ calls = <<>>
    /\ compared = {}
    /\ live = FALSE
    /\ ret = Ret("none", FALSE, <<>>, "", 0, Zero32, ZeroF)
    /\ consumed = <<>>

\* a caller (the program at depth 0, a running handler otherwise) calls
\* process(table, cmdline).  An exception leaves through every running
\* handler: none of them catches.
Process(table, cmdline) ==
    /\ depth < MaxDepth
    /\ LET r == process(current, index, table, cmdline, sep)
       IN  /\ current' = r.current
           /\ index' = r.index
           /\ calls' = r.calls
           /\ compared' = r.compared
           /\ live' = r.entered
           /\ depth' = IF r.threw # "" THEN 0
                       ELSE IF r.entered THEN depth + 1 ELSE depth
           /\ ret' = Ret("process", FALSE, <<>>, r.threw, 0, Zero32, ZeroF)
    /\ req' = [table |-> table, line |-> cmdline]
    /\ consumed' = <<>>
    /\ UNCHANGED sep

\* the innermost running handler returns, and with it the process call that
\* entered it (line 139)
HandlerReturn ==
    /\ depth > 0
    /\ depth' = depth - 1
    /\ live' = FALSE
    /\ ret' = Ret("return", FALSE, <<>>, "", 0, Zero32, ZeroF)
    /\ UNCHANGED <<current, index, sep, req, calls, compared, consumed>>

\* what every get call does to the state besides ret, given the result t of
\* its gettoken and the exception of its conversion
Took(t, threw) ==
    /\ index' = t.index
    /\ consumed' = IF t.valid THEN Append(consumed, t.token) ELSE consumed
    /\ depth' = IF threw # "" THEN 0 ELSE depth
    /\ UNCHANGED <<current, sep, req, calls, compared, live>>

\* CmdParam::gettoken(&valid)
GetToken ==
    LET t == gettoken(current, index, sep)
    IN  /\ Took(t, "")
        /\ ret' = Ret("gettoken", t.valid, t.token, "", 0, Zero32, ZeroF)

\* the conversion with a slip: no test of tvalid before std::stoi
ConvertIntAlways(t) == StoI(t.token)

\* int f=0; ... if (tvalid) f=std::stoi(token,NULL,0);
ConvertInt(t) == IF t.valid THEN StoI(t.token) ELSE [threw |-> "", value |-> 0]

\* unsigned int f=0; ... if (tvalid) f=std::stoul(token,NULL,0);
ConvertUInt(t) ==
    IF t.valid THEN StoUL(t.token) ELSE [threw |-> "", value |-> Zero32]

\* float f=0.0; ... if (tvalid) f=std::stof(token);
ConvertFloat(t) ==
    IF t.valid THEN StoF(t.token)
    ELSE [threw |-> "", neg |-> FALSE, int |-> <<>>, frac |-> <<>>]

\* CmdParam::getint(valid), flag telling whether valid is not NULL
GetIntTo(flag) ==
    LET t == gettoken(current, index, sep)
        c == ConvertInt(t)
    IN  /\ Took(t, c.threw)
        /\ ret' = Reported(flag, Ret("getint", t.valid, t.token, c.threw,
                                     c.value, Zero32, ZeroF))

\* CmdParam::getuint(valid)
GetUIntTo(flag) ==
    LET t == gettoken(current, index, sep)
        c == ConvertUInt(t)
    IN  /\ Took(t, c.threw)
        /\ ret' = Reported(flag, Ret("getuint", t.valid, t.token, c.threw,
                                     0, c.value, ZeroF))

\* CmdParam::getfloat(valid)
GetFloatTo(flag) ==
    LET t == gettoken(current, index, sep)
        c == ConvertFloat(t)
    IN  /\ Took(t, c.threw)
        /\ ret' = Reported(flag, Ret("getfloat", t.valid, t.token, c.threw,
                                     0, Zero32,
                                     [neg |-> c.neg, int |-> c.int, frac |-> c.frac]))

\* CmdParam::getint(&valid)
GetInt == GetIntTo(TRUE)

\* CmdParam::getuint(&valid)
GetUInt == GetUIntTo(TRUE)

\* CmdParam::getfloat(&valid)
GetFloat == GetFloatTo(TRUE)

\* CmdParam::getint(), CmdParam::getuint(), CmdParam::getfloat(): valid is
\* NULL, the default
GetIntNull == GetIntTo(FALSE)

GetUIntNull == GetUIntTo(FALSE)

GetFloatNull == GetFloatTo(FALSE)

\* The lines a caller may submit: any line while the buffer is still empty
\* (the program's first command line), a short one once a line is in it (a
\* later command line, or the line a handler passes to a nested process).
NextLines == IF current = <<>> THEN Lines ELSE MoreLines

Next ==
    \/ \E table \in Tables, cmdline \in NextLines : Process(table, cmdline)
    \/ HandlerReturn
    \/ GetToken
    \/ GetInt
    \/ GetUInt
    \/ GetFloat

Spec == Init /\ [][Next]_vars

(***************************************************************************)
(* The tokenizer alone: gettoken called again and again on a buffer that   *)
(* no process call replaces.  The initial states are those process is in   *)
(* after lines 122-123 (current = cmdline, index = 0); gettoken is called   *)
(* for as long as a call changes anything.                                 *)
(***************************************************************************)
InitTok ==
    /\ current \in Lines
    /\ index = 0
    /\ sep = DefaultSep
    /\ depth = 0
    /\ req = [table |-> <<>>, line |-> <<>>]
    /\ calls = <<>>
    /\ compared = {}
    /\ live = FALSE
    /\ ret = Ret("none", FALSE, <<>>, "", 0, Zero32, ZeroF)
    /\ consumed = <<>>

NextTok == GetToken

SpecTok == InitTok /\ [][NextTok]_vars /\ WF_vars(NextTok)

(***************************************************************************)
(* The numeric calls alone: getint, getuint and getfloat, with a valid     *)
(* pointer or with NULL, on a buffer that holds one token: a formatted     *)
(* number or text that is no number, with or without separators around     *)
(* it.  The initial states are those process is in after lines 122-123.    *)
(***************************************************************************)
\* the decimal digit d
Digit(d) == HexDigits[d + 1]

\* the decimal digits of the 32-bit value m = [hi, lo], no leading zero
RECURSIVE FormatU32(_)
FormatU32(m) ==
    IF m.hi = 0 /\ m.lo < 10 THEN << Digit(m.lo) >>
    ELSE LET t == (m.hi % 10) * Half + m.lo
         IN  FormatU32([hi |-> m.hi \div 10, lo |-> t \div 10]) \o << Digit(t % 10) >>

IntMax == 2147483647
IntMin == 0 - IntMax - 1

\* the magnitude of the int v as a 32-bit value
IntMag(v) ==
    IF v >= 0 THEN [hi |-> v \div Half, lo |-> v % Half]
    ELSE IF v = IntMin THEN [hi |-> Half \div 2, lo |-> 0]
    ELSE [hi |-> (0 - v) \div Half, lo |-> (0 - v) % Half]

\* the decimal formatting of the int v (printf "%d", std::to_string)
FormatInt(v) ==
    IF v < 0 THEN <<"-">> \o FormatU32(IntMag(v)) ELSE FormatU32(IntMag(v))

\* the k low decimal digits of f, leading zeros kept
RECURSIVE Pad(_, _)
Pad(f, k) == IF k = 0 THEN <<>> ELSE Pad(f \div 10, k - 1) \o << Digit(f % 10) >>

\* the fixed formatting of the number n / 10^k with k decimals (printf
\* "%.kf"; the demo prints its floats with "%f", which is k = 6)
FormatFixed(n, k) ==
    LET a == IF n < 0 THEN 0 - n ELSE n
        body == FormatU32(IntMag(a \div Pow10(k)))
                  \o (IF k = 0 THEN <<>> ELSE <<".">> \o Pad(a % Pow10(k), k))
    IN  IF n < 0 THEN <<"-">> \o body ELSE body

\* the ints formatted: the small ones and the ends of the range and of its
\* 16-bit halves
IntValues ==
    ((0 - MaxValue)..MaxValue)
        \cup {IntMin, IntMin + 1, 0 - Half, 1 - Half, Half - 1, Half, IntMax - 1, IntMax}

\* the unsigned ints formatted, as halves: the small ones, 65535, 65536,
\* 2^31-1, 2^31 and 2^32-1
UIntValues ==
    {[hi |-> 0, lo |-> n] : n \in 0..MaxValue}
        \cup {[hi |-> 0, lo |-> Half - 1], [hi |-> 1, lo |-> 0],
              [hi |-> Half \div 2 - 1, lo |-> Half - 1],
              [hi |-> Half \div 2, lo |-> 0], [hi |-> Half - 1, lo |-> Half - 1]}

\* the numbers of decimals of the floats formatted
Places == {0, 1, 2, 6}

\* tokens that start with no number
Malformed ==
    { <<"a">>, <<"a", "1">>, <<".">>, <<"-">>, <<"-", "a">>, <<"-", ".">> }

\* tokens that start with a number and go on
Trailing == { <<"1", "a">>, <<"1", ".", "1", ".", "1">>, <<"0", "1", "0">> }

NumTokens ==
    {FormatInt(v) : v \in IntValues}
        \cup {FormatU32(u) : u \in UIntValues}
        \cup {FormatFixed(n, k) : n \in (0 - MaxValue)..MaxValue, k \in Places}
        \cup Malformed \cup Trailing

Pads == { <<>>, <<" ">> }

NumLines ==
    {pre \o tok \o post : pre \in Pads, tok \in NumTokens, post \in Pads}
        \cup { <<>>, <<" ", " ">> }

InitNum ==
    /\ current \in NumLines
    /\ index = 0
    /\ sep = DefaultSep
    /\ depth = 0
    /\ req = [table |-> <<>>, line |-> <<>>]
    /\ calls = <<>>
    /\ compared = {}
    /\ live = FALSE
    /\ ret = Ret("none", FALSE, <<>>, "", 0, Zero32, ZeroF)
    /\ consumed = <<>>

NextNum ==
    \/ GetInt
    \/ GetUInt
    \/ GetFloat
    \/ GetIntNull
    \/ GetUIntNull
    \/ GetFloatNull

SpecNum == InitNum /\ [][NextNum]_vars

(***************************************************************************)
(* Vocabulary of the properties: tokens and tables as the specification    *)
(* describes them, defined without the code's cursor arithmetic.           *)
(***************************************************************************)
\* s without its first n characters
Drop(s, n) == SubSeq(s, n + 1, Len(s))

\* s without its leading separators
RECURSIVE SkipSeps(_, _)
SkipSeps(s, seps) ==
    IF s # <<>> /\ s[1] \in seps THEN SkipSeps(Drop(s, 1), seps) ELSE s

\* the longest prefix of s that holds no separator
RECURSIVE TakeWord(_, _)
TakeWord(s, seps) ==
    IF s = <<>> \/ s[1] \in seps THEN <<>>
    ELSE <<s[1]>> \o TakeWord(Drop(s, 1), seps)

\* the separator-delimited tokens of s, in order
RECURSIVE Tokens(_, _)
Tokens(s, seps) ==
    LET r == SkipSeps(s, seps)
        w == TakeWord(r, seps)
    IN  IF r = <<>> THEN <<>> ELSE <<w>> \o Tokens(Drop(r, Len(w)), seps)

\* what follows the first token of s (s has one)
AfterCommand(s, seps) ==
    LET r == SkipSeps(s, seps) IN Drop(r, Len(TakeWord(r, seps)))

\* a process call has been made
Processed == req.table # <<>>

\* the tokens of the line of the most recent process call
ReqTokens == Tokens(req.line, sep)

\* the index of the sentinel: the first row whose name is empty
SentinelIndex(table) ==
    SetMin({i \in 0..(Len(table) - 1) : table[i + 1].cmdname = <<>>})

\* the indices before the sentinel whose name is word
Matching(table, word) ==
    {i \in 0..(SentinelIndex(table) - 1) : table[i + 1].cmdname = word}

\* the most recent process call was given a line whose first token names a
\* row before the sentinel
ReqMatches ==
    /\ Processed
    /\ ReqTokens # <<>>
    /\ Matching(req.table, ReqTokens[1]) # {}

\* the handler calls among the callbacks of the most recent process call
HandlerCalls == {k \in 1..Len(calls) : calls[k].fn = "handler"}

GetOps == {"gettoken", "getint", "getuint", "getfloat"}

(***************************************************************************)
(* C1: when the first token of the line names a row before the sentinel,   *)
(* process calls the handler of the earliest such row exactly once, with   *)
(* that row's arg, and makes no other callback.                            *)
(* Stated as the claim has it; the code violates it (see C3).              *)
(***************************************************************************)
C1_EarliestHandlerOnce ==
    ReqMatches =>
        /\ Len(calls) = 1
        /\ calls[1].fn = "handler"
        /\ calls[1].row = SetMin(Matching(req.table, ReqTokens[1]))
        /\ calls[1].fp = req.table[calls[1].row + 1].fp
        /\ calls[1].arg = req.table[calls[1].row + 1].arg

(***************************************************************************)
(* C2: the id passed to the handler is the id field of the matched row.    *)
(* Stated as the claim has it; the code passes the row's index.            *)
(***************************************************************************)
C2_IdIsRowId ==
    \A k \in HandlerCalls : calls[k].id = req.table[calls[k].row + 1].id

(***************************************************************************)
(* C3: when process matches a row, the handler is given the suffix of the  *)
(* line that starts right after the command token, the empty string when   *)
(* the token ends the line.                                                *)
(* Stated as the claim has it; the code throws when the token ends the     *)
(* line.                                                                   *)
(***************************************************************************)
C3_RemainderIsSuffix ==
    ReqMatches =>
        \E k \in HandlerCalls : calls[k].s1 = AfterCommand(req.line, sep)

(***************************************************************************)
(* C4: when the first token of the line names no row before the sentinel,  *)
(* process calls notfoundfunc exactly once, with the original line and the *)
(* command token, calls no handler, and returns.                           *)
(***************************************************************************)
ReqUnknown ==
    /\ Processed
    /\ ReqTokens # <<>>
    /\ Matching(req.table, ReqTokens[1]) = {}

C4_NotFoundOnce ==
    ReqUnknown =>
        /\ Len(calls) = 1
        /\ calls[1].fn = "notfound"
        /\ calls[1].s1 = req.line
        /\ calls[1].s2 = ReqTokens[1]
        /\ ret.op = "process" => ret.threw = ""

\* a word no row names was looked up in a table that has rows, the word
\* ending the line
C4_Witness ==
    /\ ReqUnknown
    /\ ret.op = "process"
    /\ req.table = TableDoc
    /\ req.line = <<" ", "1", "a">>
    /\ calls = << NotFoundCall(<<" ", "1", "a">>, <<"1", "a">>) >>

(***************************************************************************)
(* C5: for a line that is empty or all separators, process reports through *)
(* printfunc (the generic message, then the original line), compares no    *)
(* table row, calls neither notfoundfunc nor a handler, and returns.       *)
(***************************************************************************)
ReqBlank == Processed /\ ReqTokens = <<>>

C5_BlankLineReported ==
    ReqBlank =>
        /\ Len(calls) = 2
        /\ calls[1].fn = "print" /\ calls[1].s1 = UnknownError
        /\ calls[2].fn = "print" /\ calls[2].s1 = req.line
        /\ compared = {}
        /\ ~live
        /\ ret.op = "process" => ret.threw = ""

\* a line of separators only was submitted and reported
C5_Witness ==
    /\ ReqBlank
    /\ ret.op = "process"
    /\ req.line = <<" ", " ", " ">>
    /\ Len(calls) = 2

(***************************************************************************)
(* C6: every process call ends after exactly one of: the blank-line report *)
(* through printfunc, one handler call, one notfoundfunc call.             *)
(* Stated as the claim has it; the code's exception (see C3) ends a call   *)
(* with none of them.                                                      *)
(***************************************************************************)
IsBlankReport == Len(calls) = 2 /\ \A k \in 1..2 : calls[k].fn = "print"
IsOneHandler == Len(calls) = 1 /\ calls[1].fn = "handler"
IsOneNotFound == Len(calls) = 1 /\ calls[1].fn = "notfound"

C6_ExactlyOneOutcome ==
    Processed => (IsBlankReport \/ IsOneHandler \/ IsOneNotFound)

(***************************************************************************)
(* C7: gettoken called repeatedly on an unchanged buffer never decreases   *)
(* the cursor and never changes the buffer or the separators; after        *)
(* finitely many calls it returns invalid, and from then on every call     *)
(* returns invalid with an empty token, raises nothing and changes         *)
(* nothing.  (Checked under SpecTok.)                                      *)
(***************************************************************************)
NoToken == ret.op = "gettoken" /\ ~ret.valid /\ ret.token = <<>> /\ ret.threw = ""

C7_RepeatedGetToken ==
    /\ [][index' >= index /\ current' = current /\ sep' = sep]_vars
    /\ [][NoToken => UNCHANGED <<index, current, sep, ret>>]_vars
    /\ <>[]NoToken

\* two tokens were returned and the next call found none
C7_Witness ==
    /\ NoToken
    /\ current = <<"a", " ", "1", " ">>
    /\ consumed = << <<"a">>, <<"1">> >>
    /\ index = 3

(***************************************************************************)
(* C8: the table search stops at the first row whose name is empty: no row *)
(* at or after it is compared with the command word or has its handler     *)
(* called, and when no row before it matches, every row before it is       *)
(* compared, whatever the ids are.                                         *)
(***************************************************************************)
C8_SearchStopsAtSentinel ==
    Processed =>
        /\ \A i \in compared : i < SentinelIndex(req.table)
        /\ \A k \in HandlerCalls : calls[k].row < SentinelIndex(req.table)
        /\ ReqUnknown => compared = 0..(SentinelIndex(req.table) - 1)

\* the command word is the name of a row after the sentinel of a table
\* whose first row has id 0 and whose sentinel has id 9
C8_Witness ==
    /\ Processed
    /\ req.table = TableDup
    /\ ReqTokens # <<>>
    /\ ReqTokens[1] = TableDup[5].cmdname
    /\ compared = {0, 1, 2}
    /\ IsOneNotFound

(***************************************************************************)
(* C9: when several rows before the sentinel have the name the command     *)
(* word equals, the only handler process calls is that of the row of the   *)
(* lowest index.                                                           *)
(***************************************************************************)
C9_FirstDuplicateWins ==
    Processed =>
        \A k \in HandlerCalls :
            /\ calls[k].row \in Matching(req.table, ReqTokens[1])
            /\ \A j \in Matching(req.table, ReqTokens[1]) : calls[k].row <= j
            /\ calls[k].fp = req.table[calls[k].row + 1].fp
            /\ Len(calls) = 1

\* the command word names rows 0 and 2 of TableDup and row 0 was called
C9_Witness ==
    /\ Processed
    /\ req.table = TableDup
    /\ ReqTokens # <<>>
    /\ Matching(TableDup, ReqTokens[1]) = {0, 2}
    /\ IsOneHandler
    /\ calls[1].row = 0
    /\ calls[1].fp = "list"

(***************************************************************************)
(* C10: after process enters a handler, the handler's successive gettoken, *)
(* getint, getuint and getfloat calls take, in order and one per call, the *)
(* tokens of the line that follow the command word, and a call reports     *)
(* invalid (with a zero result) exactly when none is left; getfloat on the *)
(* token 1.1 gives 1.1.                                                    *)
(***************************************************************************)
\* the handler the most recent process call entered is running, or the
\* exception of its last get call has just ended it
InHandler == live /\ (depth > 0 \/ ret.threw # "")

C10_HandlerTokensInOrder ==
    InHandler =>
        /\ Len(consumed) <= Len(ReqTokens) - 1
        /\ consumed = SubSeq(ReqTokens, 2, Len(consumed) + 1)
        /\ ret.op \in GetOps =>
             IF ret.valid
             THEN /\ consumed # <<>>
                  /\ ret.token = consumed[Len(consumed)]
             ELSE /\ Len(consumed) = Len(ReqTokens) - 1
                  /\ ret.token = <<>>
                  /\ ret.threw = ""
                  /\ ret.ival = 0 /\ ret.uval = Zero32 /\ ret.fval = ZeroF
        /\ (ret.op = "getfloat" /\ ret.token = <<"1", ".", "1">>) =>
             /\ ret.threw = ""
             /\ ret.fval = [neg |-> FALSE, int |-> <<"1">>, frac |-> <<"1">>]

\* the handler of "a 1.1" has read 1.1 with a first getfloat and its second
\* getfloat reports invalid with 0.0
C10_Witness ==
    /\ InHandler
    /\ depth = 1
    /\ req.line = <<"a", " ", "1", ".", "1">>
    /\ consumed = << <<"1", ".", "1">> >>
    /\ ret.op = "getfloat"
    /\ ~ret.valid
    /\ ret.fval = ZeroF

(***************************************************************************)
(* The numeric calls.                                                      *)
(***************************************************************************)
NumOps == {"getint", "getuint", "getfloat"}

\* the buffer from the cursor on (nothing when the cursor is at or beyond
\* the end)
Rest == IF index >= Len(current) THEN <<>> ELSE Drop(current, index)

\* no token remains at or after the cursor
NoTokenLeft == Tokens(Rest, sep) = <<>>

\* C11: getint, getuint and getfloat called when no token remains at or
\* after the cursor return zero, report invalid through the valid pointer
\* when there is one, return normally with a NULL pointer too, and leave the
\* cursor and the buffer as they were.
C11_NoTokenZeroInvalid ==
    [][ (ret'.op \in NumOps /\ NoTokenLeft) =>
            /\ ret'.threw = ""
            /\ ret'.ival = 0 /\ ret'.uval = Zero32 /\ ret'.fval = ZeroF
            /\ ~ret'.valid
            /\ ret'.token = <<>>
            /\ index' = index
            /\ current' = current ]_vars

\* after getint read 12 from " 12 ", a getfloat with a NULL pointer found
\* only the trailing separator and returned 0.0, the cursor still at 3
C11_Witness ==
    /\ current = <<" ", "1", "2", " ">>
    /\ consumed = << <<"1", "2">> >>
    /\ index = 3
    /\ ret.op = "getfloat"
    /\ ~ret.wrote
    /\ ret.fval = ZeroF
    /\ ret.threw = ""

\* C12: a numeric call whose token is present returns normally and reports
\* valid, whatever the text of the token.
C12_MalformedReturnsNormally ==
    (ret.op \in NumOps /\ ret.token # <<>>) =>
        /\ ret.threw = ""
        /\ ret.wrote => ret.valid

(***************************************************************************)
(* The state process starts from.                                          *)
(***************************************************************************)
\* C13: whatever buffer and cursor earlier process, gettoken and numeric
\* calls left behind, process(table, line) does what it does from the
\* initial statics (empty buffer, cursor 0): the same outcome, the same
\* callback arguments, the same buffer and cursor afterwards; and the buffer
\* is the line.  (Stated on the state a process call has just left.)
C13_ProcessIgnoresLeftState ==
    ret.op = "process" =>
        LET f == process(<<>>, 0, req.table, req.line, sep)
        IN  /\ current = f.current
            /\ index = f.index
            /\ calls = f.calls
            /\ compared = f.compared
            /\ ret.threw = f.threw
            /\ live = f.entered
            /\ current = req.line

\* a handler, entered by a process call that left its buffer and a cursor
\* beyond the command word, has called process on "1 a", which found the
\* command "1" and entered its handler with the cursor at 1
C13_Witness ==
    /\ depth = 2
    /\ live
    /\ ret.op = "process"
    /\ req.line = <<"1", " ", "a">>
    /\ current = <<"1", " ", "a">>
    /\ index = 1
    /\ Len(calls) = 1

(***************************************************************************)
(* Formatting a number and reading it back.                                *)
(***************************************************************************)
\* the decimal number n / 10^k as stof keeps it
Decimal(n, k) ==
    LET a == IF n < 0 THEN 0 - n ELSE n
    IN  [neg |-> n < 0,
         int |-> StripLead(FormatU32(IntMag(a \div Pow10(k)))),
         frac |-> StripTrail(Pad(a % Pow10(k), k))]

\* C14: getint on the decimal formatting of an int returns that int, getuint
\* on the decimal formatting of an unsigned int returns that unsigned int,
\* and getfloat on a number formatted with a fixed number of decimals
\* returns that number; each returns normally and reports valid.
C14_FormatRoundTrip ==
    /\ ret.op = "getint" =>
         \A v \in IntValues :
             ret.token = FormatInt(v) =>
                 /\ ret.threw = ""
                 /\ ret.ival = v
                 /\ ret.wrote => ret.valid
    /\ ret.op = "getuint" =>
         \A u \in UIntValues :
             ret.token = FormatU32(u) =>
                 /\ ret.threw = ""
                 /\ ret.uval = u
                 /\ ret.wrote => ret.valid
    /\ ret.op = "getfloat" =>
         \A n \in (0 - MaxValue)..MaxValue, k \in Places :
             ret.token = FormatFixed(n, k) =>
                 /\ ret.threw = ""
                 /\ ret.fval = Decimal(n, k)
                 /\ ret.wrote => ret.valid

\* getint has read the least int from "-2147483648 "
C14_Witness ==
    /\ current = FormatInt(IntMin) \o <<" ">>
    /\ ret.op = "getint"
    /\ ret.token = FormatInt(IntMin)
    /\ ret.valid
    /\ ret.ival = IntMin
    /\ index = Len(current) - 1

(***************************************************************************)
(* The cursor.                                                             *)
(***************************************************************************)
\* C15: the cursor is never beyond the end of the buffer.
C15_CursorWithinBuffer == index <= Len(current)

\* C16: gettoken changes the cursor if and only if it finds a token.  When
\* every character from the cursor to the end of the buffer is a separator,
\* or the cursor is at or beyond the end, it returns the empty token,
\* reports invalid and leaves the cursor as it was; when a token is there it
\* reports valid and the cursor has moved on.  The buffer is never changed.
\* (Checked under SpecTok.)
C16_CursorMovesIffToken ==
    [][ ret'.op = "gettoken" =>
            /\ current' = current
            /\ ret'.valid <=> ~NoTokenLeft
            /\ ret'.valid <=> index' # index
            /\ ret'.valid => index' > index
            /\ ~ret'.valid => ret'.token = <<>> /\ ret'.threw = "" ]_vars

\* after the token of "a  " the call found only the two separators left and
\* the cursor stays at 1
C16_Witness ==
    /\ current = <<"a", " ", " ">>
    /\ consumed = << <<"a">> >>
    /\ index = 1
    /\ ret.op = "gettoken"
    /\ ~ret.valid
    /\ ret.token = <<>>

\* C17: a token gettoken returns as valid is the first maximal run of
\* characters that are no separators at or after the cursor: it is not
\* empty, holds no separator, starts at the first character at or after the
\* old cursor that is no separator, and is followed in the buffer by a
\* separator or by the end of the buffer.  (Checked under SpecTok.)
C17_TokenIsFirstMaximalRun ==
    [][ (ret'.op = "gettoken" /\ ret'.valid) =>
            LET tok == ret'.token
                n   == Len(ret'.token)
            IN  /\ n >= 1
                /\ \A i \in 1..n : tok[i] \notin sep
                /\ \E s \in 0..(Len(current) - 1) :
                      /\ s >= index
                      /\ \A j \in 0..(s - 1) : j >= index => current[j + 1] \in sep
                      /\ s + n <= Len(current)
                      /\ tok = SubSeq(current, s + 1, s + n)
                      /\ s + n = Len(current) \/ current[s + n + 1] \in sep ]_vars

\* the second call on "a  1 " skipped two separators and returned "1", the
\* cursor now on the separator after it
C17_Witness ==
    /\ current = <<"a", " ", " ", "1", " ">>
    /\ consumed = << <<"a">>, <<"1">> >>
    /\ ret.op = "gettoken"
    /\ ret.valid
    /\ ret.token = <<"1">>
    /\ index = 4

(***************************************************************************)
(* A handler that calls process.                                           *)
(***************************************************************************)
\* a handler is running again after a process call it made has returned
\* (with or without a handler of its own)
OuterAfterNested == depth > 0 /\ ~live

\* C18: the statics are not saved across a process call made by a handler.
\* When that call returns, the buffer is its line and the cursor is where it
\* (or the handler it called) left it, and the tokens the calling handler
\* gets from then on are the next tokens of that line, never those of its
\* own line.
C18_NestedProcessKeepsItsState ==
    /\ [](OuterAfterNested =>
            /\ current = req.line
            /\ consumed = SubSeq(ReqTokens, 2, Len(consumed) + 1)
            /\ ret.op \in GetOps =>
                 IF ret.valid
                 THEN consumed # <<>> /\ ret.token = consumed[Len(consumed)]
                 ELSE Len(consumed) + 1 >= Len(ReqTokens) /\ ret.token = <<>>)
    /\ [][ (ret'.op = "return" /\ depth' > 0) => UNCHANGED <<current, index, req>> ]_vars
    /\ [][ (ret'.op = "process" /\ depth > 0 /\ depth' > 0 /\ ~live') =>
              /\ current' = req'.line
              /\ index' = gettoken(req'.line, 0, sep).index ]_vars

\* the handler of an outer line called process on "1 a", whose handler
\* returned without reading; the outer handler's gettoken then returned "a",
\* the argument of the nested line
C18_Witness ==
    /\ OuterAfterNested
    /\ depth = 1
    /\ req.line = <<"1", " ", "a">>
    /\ req.table = TableDoc
    /\ current = <<"1", " ", "a">>
    /\ consumed = << <<"a">> >>
    /\ ret.op = "gettoken"
    /\ ret.valid
    /\ ret.token = <<"a">>

====
